---- MODULE Spec2Model ----
(***************************************************************************)
(* receipt_flow: the receipt-to-inventory aggregation engine.              *)
(*                                                                         *)
(* Python values are represented as follows.                               *)
(*   str        a tuple of pieces.  Price strings are tuples of single     *)
(*              characters (they are parsed); messages are tuples of       *)
(*              longer pieces (they are only searched or compared).        *)
(*   None       in a slot that otherwise holds a str: the tuple None.      *)
(*   float|None a record [some, v]; v counts hundredths (cents).           *)
(*   dict       a record; a key the dict lacks is a field the record       *)
(*              lacks (see Get).                                           *)
(*   list       a sequence.                                                *)
(***************************************************************************)
EXTENDS Integers, Sequences, FiniteSets, TLC

\* ------------------------------------------------------------------ bounds
\* Most items the inventory may hold when the real extraction path appends.
MaxInv == 2
\* Largest reading of the clock: at most this many calls read it.
MaxNow == 2
\* Most items the inventory may hold when the mock extraction path appends.
MaxMockInv == 5
\* Most characters of a price text given to parse_price on its own.
MaxPriceLen == 5
\* Most pieces of a response content given to the lookup on its own.
MaxContentLen == 4

\* ------------------------------------------------------------ Python values
None == <<"None">>
NoneF == [some |-> FALSE, v |-> 0]
F(n) == [some |-> TRUE, v |-> n]
isinstance_str(x) == x # None

\* dict.get(key, default)
Get(d, k, default) == IF k \in DOMAIN d THEN d[k] ELSE default

\* needle in text (substring test on pieces)
Contains(text, needle) ==
    \E i \in 1..(Len(text) - Len(needle) + 1) :
        SubSeq(text, i, i + Len(needle) - 1) = needle

Digits == {"0", "1", "2", "3", "4", "5", "6", "7", "8", "9"}

DigitVal(c) ==
    CASE c = "0" -> 0 [] c = "1" -> 1 [] c = "2" -> 2 [] c = "3" -> 3
      [] c = "4" -> 4 [] c = "5" -> 5 [] c = "6" -> 6 [] c = "7" -> 7
      [] c = "8" -> 8 [] c = "9" -> 9

DigitChar(n) ==
    CASE n = 0 -> "0" [] n = 1 -> "1" [] n = 2 -> "2" [] n = 3 -> "3"
      [] n = 4 -> "4" [] n = 5 -> "5" [] n = 6 -> "6" [] n = 7 -> "7"
      [] n = 8 -> "8" [] n = 9 -> "9"

RECURSIVE DigitsVal(_)
DigitsVal(s) ==
    IF s = <<>> THEN 0
    ELSE 10 * DigitsVal(SubSeq(s, 1, Len(s) - 1)) + DigitVal(s[Len(s)])

RECURSIVE NatStr(_)
NatStr(n) ==
    IF n < 10 THEN <<DigitChar(n)>>
    ELSE Append(NatStr(n \div 10), DigitChar(n % 10))

Abs(x) == IF x < 0 THEN -x ELSE x

\* f"{x:.2f}" of an amount held in cents
Fmt2(v) ==
    (IF v < 0 THEN <<"-">> ELSE <<>>) \o NatStr(Abs(v) \div 100)
        \o <<".", DigitChar((Abs(v) % 100) \div 10), DigitChar(Abs(v) % 10)>>

\* str.replace(ch, '')
RECURSIVE Remove(_, _)
Remove(s, ch) ==
    IF s = <<>> THEN <<>>
    ELSE IF s[1] = ch THEN Remove(Tail(s), ch)
    ELSE <<s[1]>> \o Remove(Tail(s), ch)

\* str.strip()
RECURSIVE Strip(_)
Strip(s) ==
    IF s = <<>> THEN <<>>
    ELSE IF s[1] = " " THEN Strip(Tail(s))
    ELSE IF s[Len(s)] = " " THEN Strip(SubSeq(s, 1, Len(s) - 1))
    ELSE s

\* float(s) for text over digits, signs, "." and other printable characters,
\* with at most two characters after its first ".": [sign] digits [. digits]
\* or [sign] . digits is the number; anything else is the ValueError, rendered
\* as NoneF.  The texts the model parses hold no exponent, "inf", "nan" or
\* "_", which float() also takes.
unsigned(s) == IF s # <<>> /\ s[1] \in {"+", "-"} THEN Tail(s) ELSE s
negative(s) == s # <<>> /\ s[1] = "-"

\* index of the first ".", or one past the end
dot_index(body) ==
    IF \E i \in DOMAIN body : body[i] = "."
    THEN CHOOSE i \in DOMAIN body :
            body[i] = "." /\ \A k \in 1..(i - 1) : body[k] # "."
    ELSE Len(body) + 1

hundredths(fp) ==
    IF Len(fp) = 0 THEN 0
    ELSE IF Len(fp) = 1 THEN 10 * DigitVal(fp[1])
    ELSE DigitsVal(fp)

decimal(ip, fp, neg) ==
    IF /\ Len(ip) + Len(fp) >= 1
       /\ Len(fp) <= 2
       /\ \A i \in DOMAIN ip : ip[i] \in Digits
       /\ \A i \in DOMAIN fp : fp[i] \in Digits
    THEN F((IF neg THEN -1 ELSE 1) * (100 * DigitsVal(ip) + hundredths(fp)))
    ELSE NoneF

float_at(body, d, neg) ==
    decimal(SubSeq(body, 1, d - 1), SubSeq(body, d + 1, Len(body)), neg)

float(s) == float_at(unsigned(s), dot_index(unsigned(s)), negative(s))

parse_price(price_str) ==
    IF ~isinstance_str(price_str) THEN NoneF
    ELSE float(Strip(Remove(Remove(price_str, "$"), ",")))

\* ------------------------------------------------------------- text values
S_4_00 == <<"$", "4", ".", "0", "0">>
S_2_00 == <<"$", "2", ".", "0", "0">>
S_3_50 == <<"$", "3", ".", "5", "0">>
S_3_5 == <<"3", ".", "5">>
S_NA == <<"N", "/", "A">>
S_NotFound == <<"Not Found">>
S_PriceVaries == <<"Price Varies">>
S_ErrorSentinel == <<"Error:">>
S_Url == <<"https://shop/p">>

\* ------------------------------------------------------ configuration state
VARIABLES
    GOOGLE_API_KEY,       \* the extraction credential is configured
    PERPLEXITY_API_KEY    \* the lookup credential is configured

\* --------------------------------------------------- Item Extraction Adapter
\* A value for int(): an integer, or something int() rejects.
IntVal(n) == [isint |-> TRUE, v |-> n]
NotInt == [isint |-> FALSE, v |-> 0]

\* (today + timedelta(days)).isoformat(), relative to the day of the call
expiry_date(days) == <<"today+">> \o NatStr(days)

RawItem(name, days, price) ==
    [item |-> name, days_until_expiry |-> days, price_paid |-> price]

\* What the vision model answers: the inputs of call_gemini_vision_api.
Responses == 1..11
GeminiResponse(r) ==
    CASE r = 1 -> [kind |-> "json",
                   data |-> [items |-> [islist |-> TRUE,
                                        v |-> <<RawItem(<<"Milk">>, IntVal(10), S_4_00)>>],
                             total |-> S_4_00]]
      [] r = 2 -> [kind |-> "json",
                   data |-> [items |-> [islist |-> TRUE,
                                        v |-> <<RawItem(<<"Bread">>, IntVal(5), S_2_00)>>],
                             total |-> S_2_00]]
      [] r = 3 -> [kind |-> "json",
                   data |-> [items |-> [islist |-> TRUE,
                                        v |-> <<RawItem(<<"Bag">>, NotInt, S_NA)>>],
                             total |-> S_NA]]
      [] r = 4 -> [kind |-> "json",
                   data |-> [items |-> [islist |-> TRUE,
                                        v |-> <<RawItem(<<"Bag">>, IntVal(5), S_NA),
                                                RawItem(<<"Milk">>, IntVal(10), S_4_00)>>],
                             total |-> S_4_00]]
      [] r = 5 -> [kind |-> "json",
                   data |-> [items |-> [islist |-> TRUE,
                                        v |-> <<RawItem(None, IntVal(5), S_2_00),
                                                RawItem(<<"Milk">>, IntVal(10), S_4_00)>>],
                             total |-> <<"$", "6", ".", "0", "0">>]]
      [] r = 6 -> [kind |-> "json",
                   data |-> [items |-> [islist |-> TRUE,
                                        v |-> <<[item |-> <<"Milk">>]>>],
                             total |-> <<"Error", " none">>]]
      [] r = 7 -> [kind |-> "json",
                   data |-> [items |-> [islist |-> TRUE, v |-> <<>>],
                             total |-> <<"Error:", " bad json">>]]
      [] r = 8 -> [kind |-> "json",
                   data |-> [items |-> [islist |-> FALSE, v |-> <<>>]]]
      [] r = 9 -> [kind |-> "invalid_json"]
      [] r = 10 -> [kind |-> "raise"]
      [] r = 11 -> [kind |-> "json",
                    data |-> [items |-> [islist |-> TRUE, v |-> <<>>],
                              total |-> <<"Total ", "Error:", " unreadable">>]]

validated_item(item) ==
    [predicted_expiry |->
        IF item.days_until_expiry.isint
        THEN expiry_date(item.days_until_expiry.v)
        ELSE expiry_date(7)] @@ item

is_valid_item(item) ==
    {"item", "days_until_expiry", "price_paid"} \subseteq DOMAIN item

RECURSIVE validated_items(_)
validated_items(items) ==
    IF items = <<>> THEN <<>>
    ELSE (IF is_valid_item(Head(items)) THEN <<validated_item(Head(items))>>
          ELSE <<>>)
         \o validated_items(Tail(items))

parsed_response(items, total) ==
    [items |-> IF items.islist THEN validated_items(items.v) ELSE <<>>,
     total |-> total]

\* call_gemini_vision_api: (items, total)
call_gemini_vision_api(response) ==
    IF response.kind = "raise"
    THEN [items |-> <<>>, total |-> <<"Error:", " AI API call failed">>]
    ELSE IF response.kind = "invalid_json"
    THEN [items |-> <<>>, total |-> <<"Error:", " Invalid JSON response from AI">>]
    ELSE parsed_response(Get(response.data, "items", [islist |-> TRUE, v |-> <<>>]),
                         Get(response.data, "total", S_NA))

\* The mock draws its prices and shelf lives at random: two draws.
MockDraws == {1, 2}
MockItem(name, days, price) ==
    [item |-> name, price_paid |-> price, predicted_expiry |-> expiry_date(days)]

mock_gemini_vision_processor(draw) ==
    IF draw = 1
    THEN [items |-> <<MockItem(<<"Organic Milk">>, 7, S_4_00),
                      MockItem(<<"Artisan Bread">>, 2, S_4_00),
                      MockItem(<<"Avocado">>, 2, S_2_00),
                      MockItem(<<"Free-Range Eggs">>, 14, S_4_00),
                      MockItem(<<"Fresh Spinach">>, 3, S_3_50)>>,
          total |-> <<"$", "2", "0", ".", "0", "0">>]
    ELSE [items |-> <<MockItem(<<"Organic Milk">>, 14, <<"$", "5", ".", "9", "9">>),
                      MockItem(<<"Artisan Bread">>, 5, <<"$", "6", ".", "9", "9">>),
                      MockItem(<<"Avocado">>, 4, <<"$", "2", ".", "5", "0">>),
                      MockItem(<<"Free-Range Eggs">>, 28, <<"$", "6", ".", "9", "9">>),
                      MockItem(<<"Fresh Spinach">>, 7, <<"$", "4", ".", "9", "9">>)>>,
          total |-> <<"$", "7", "5", ".", "0", "0">>]

\* ------------------------------------------------ Online Price Lookup Adapter
\* re.search(r'\$?(\d+\.\d{2})', price_str): group 1 of the leftmost match
\* the digits of price_str[i..k] are followed by "." and two digits
amount_at(price_str, i, k) ==
    /\ \A m \in i..k : price_str[m] \in Digits
    /\ k + 3 <= Len(price_str)
    /\ price_str[k + 1] = "."
    /\ price_str[k + 2] \in Digits
    /\ price_str[k + 3] \in Digits

amount_starts(price_str, i) ==
    \E k \in i..Len(price_str) : amount_at(price_str, i, k)

amount_from(price_str, i) ==
    SubSeq(price_str, i,
           3 + CHOOSE k \in i..Len(price_str) : amount_at(price_str, i, k))

price_match(price_str) ==
    IF \A i \in DOMAIN price_str : ~amount_starts(price_str, i) THEN None
    ELSE amount_from(price_str,
                     CHOOSE i \in DOMAIN price_str :
                        /\ amount_starts(price_str, i)
                        /\ \A b \in 1..(i - 1) : ~amount_starts(price_str, b))

\* ------------------------------------------- the text of a lookup response
\* A response content is a tuple of pieces: runs of characters that the
\* searches below never split.  An object piece is the text of one JSON
\* object; it starts with "{", ends with "}" and holds no other brace.
\* a code fence: three backquotes, written <fence> here
T_Fence == "<fence>"
T_FenceJson == "<fence>json"
T_Space == " "
T_Open == "{"
T_Close == "}"
T_ObjPrice == "{\"price\": \"$3.50\", \"retailer\": \"Walmart\", \"url\": \"https://shop/p\"}"
T_ObjShort == "{\"price\": \"3.5\", \"retailer\": \"Target\", \"url\": \"https://shop/p\"}"
T_ObjNotFound == "{\"price\": \"Not Found\", \"retailer\": \"N/A\", \"url\": null}"
T_ObjVaries == "{\"price\": \"Price Varies\", \"retailer\": \"Multiple\", \"url\": \"https://shop/p\"}"
T_ObjNumber == "{\"price\": 3.50, \"retailer\": \"Walmart\"}"
T_Amount == "$3.50 at Walmart."
T_NotFound == "Not Found"
T_PriceVaries == "Price Varies"
T_Quoted == "\"Not Found\""

Objects == {T_ObjPrice, T_ObjShort, T_ObjNotFound, T_ObjVaries, T_ObjNumber}

\* JSON values as json.loads returns them
JStr(s) == [type |-> "str", str |-> s, num |-> 0]
JNum(v) == [type |-> "number", str |-> <<>>, num |-> v]
JNull == [type |-> "null", str |-> <<>>, num |-> 0]

\* the dict an object piece is the text of
object_of(piece) ==
    CASE piece = T_ObjPrice ->
            [price |-> JStr(S_3_50), retailer |-> JStr(<<"Walmart">>),
             url |-> JStr(S_Url)]
      [] piece = T_ObjShort ->
            [price |-> JStr(S_3_5), retailer |-> JStr(<<"Target">>),
             url |-> JStr(S_Url)]
      [] piece = T_ObjNotFound ->
            [price |-> JStr(S_NotFound), retailer |-> JStr(<<"N/A">>),
             url |-> JNull]
      [] piece = T_ObjVaries ->
            [price |-> JStr(S_PriceVaries), retailer |-> JStr(<<"Multiple">>),
             url |-> JStr(S_Url)]
      [] piece = T_ObjNumber ->
            [price |-> JNum(350), retailer |-> JStr(<<"Walmart">>)]

opens(piece) == piece = T_Open \/ piece \in Objects
closes(piece) == piece = T_Close \/ piece \in Objects
fences(piece) == piece \in {T_Fence, T_FenceJson}
spaces(content, i, k) == \A m \in i..k : content[m] = T_Space

\* content[a..b] runs from a "{" to a later "}"
braced(content, a, b) ==
    /\ opens(content[a])
    /\ closes(content[b])
    /\ a < b \/ (a = b /\ content[a] \in Objects)

NoMatch == [found |-> FALSE, group |-> <<>>]
Match(group) == [found |-> TRUE, group |-> group]

\* re.search(r'<fence>(?:json)?\s*({.*?})\s*<fence>', content, re.DOTALL),
\* line 64:
\* the fence at i opens on the "{" at a, and the "}" at b is followed by
\* white space and a fence
fence_opens(content, i, a) ==
    /\ fences(content[i])
    /\ i < a
    /\ spaces(content, i + 1, a - 1)
    /\ opens(content[a])

fence_closes(content, b) ==
    \E f \in (b + 1)..Len(content) :
        fences(content[f]) /\ spaces(content, b + 1, f - 1)

fenced_at(content, i, a, b) ==
    /\ fence_opens(content, i, a)
    /\ braced(content, a, b)
    /\ fence_closes(content, b)

fenced_from(content, i) ==
    /\ fences(content[i])
    /\ \E a \in (i + 1)..Len(content) :
          /\ fence_opens(content, i, a)
          /\ \E b \in a..Len(content) : fenced_at(content, i, a, b)

\* the leftmost match, and within it the shortest group
fenced_group(content, i) ==
    SubSeq(content,
           CHOOSE a \in DOMAIN content : fence_opens(content, i, a),
           CHOOSE b \in DOMAIN content :
              /\ \E a \in DOMAIN content : fenced_at(content, i, a, b)
              /\ \A c \in 1..(b - 1) :
                    \A a \in DOMAIN content : ~fenced_at(content, i, a, c))

fenced_match(content) ==
    IF \A i \in DOMAIN content : ~fenced_from(content, i) THEN NoMatch
    ELSE Match(fenced_group(content,
                            CHOOSE i \in DOMAIN content :
                               /\ fenced_from(content, i)
                               /\ \A h \in 1..(i - 1) : ~fenced_from(content, h)))

\* re.search(r'({.*})', content, re.DOTALL), line 70: the leftmost "{" that
\* has a "}" after it, up to the last "}"
bare_from(content, a) ==
    opens(content[a]) /\ \E b \in a..Len(content) : braced(content, a, b)

bare_group(content, a) ==
    SubSeq(content, a,
           CHOOSE b \in DOMAIN content :
              /\ braced(content, a, b)
              /\ \A c \in (b + 1)..Len(content) : ~braced(content, a, c))

bare_match(content) ==
    IF \A a \in DOMAIN content : ~bare_from(content, a) THEN NoMatch
    ELSE Match(bare_group(content,
                          CHOOSE a \in DOMAIN content :
                             /\ bare_from(content, a)
                             /\ \A h \in 1..(a - 1) : ~bare_from(content, h)))

\* lines 64-75: the text handed to json.loads
json_str_of(content, fenced, bare) ==
    IF fenced.found THEN fenced.group
    ELSE IF bare.found THEN bare.group
    ELSE content

json_str(content) ==
    json_str_of(content, fenced_match(content), bare_match(content))

\* json.loads(text): white space around the value is skipped; an object
\* piece, "{" "}" around white space, and a quoted string are JSON texts, and
\* no other run of pieces is one.
Loaded(type, data) == [ok |-> TRUE, type |-> type, data |-> data]
JSONDecodeError == [ok |-> FALSE, type |-> "none", data |-> <<>>]

json_value(text) ==
    IF Len(text) = 1 /\ text[1] \in Objects
    THEN Loaded("dict", object_of(text[1]))
    ELSE IF /\ Len(text) >= 2
            /\ text[1] = T_Open
            /\ text[Len(text)] = T_Close
            /\ spaces(text, 2, Len(text) - 1)
    THEN Loaded("dict", <<>>)
    ELSE IF text = <<T_Quoted>> THEN Loaded("str", <<>>)
    ELSE JSONDecodeError

json_loads(text) == json_value(Strip(text))

\* What the search model answers for one item: the content of its message,
\* or the failure of the request.
Upstreams == 1..5
Upstream(u) ==
    CASE u = 1 -> [kind |-> "content",
                   content |-> <<T_FenceJson, T_ObjPrice, T_Fence>>]
      [] u = 2 -> [kind |-> "content", content |-> <<T_ObjShort>>]
      [] u = 3 -> [kind |-> "content", content |-> <<T_ObjNotFound>>]
      [] u = 4 -> [kind |-> "content", content |-> <<T_ObjVaries>>]
      [] u = 5 -> [kind |-> "request_error", content |-> <<>>]

LookupResult(status, price, details, url) ==
    [raised |-> FALSE, status |-> status, price |-> price, details |-> details,
     url |-> url]
LookupRaised ==
    [raised |-> TRUE, status |-> "error", price |-> NoneF, details |-> <<>>,
     url |-> None]

priced_result(details, m, product_url) ==
    IF m # None
    THEN LookupResult("found", float(m), details, product_url)
    ELSE LookupResult("found", NoneF, details, product_url)

parsed_result(price_str, retailer, product_url) ==
    IF price_str = S_NotFound
    THEN LookupResult("not_found", NoneF,
                      <<"Not Found", " via Online Retailers">>, None)
    ELSE IF price_str = S_PriceVaries
    THEN LookupResult("varies", NoneF, <<"Price Varies">>, product_url)
    ELSE priced_result(price_str \o <<" at ">> \o retailer,
                       price_match(price_str), product_url)

\* str(price) of a float held in cents: the shortest text, one digit after
\* the point at least
float_str(v) ==
    NatStr(v \div 100) \o <<".">>
        \o (IF v % 10 = 0 THEN <<DigitChar((v % 100) \div 10)>>
            ELSE <<DigitChar((v % 100) \div 10), DigitChar(v % 10)>>)

\* lines 134-137: the catch-all of the adapter
unexpected_error ==
    LookupResult("error", NoneF, <<"Unexpected error checking price: ">>, None)

\* lines 81-106 for a dict.  A price that is no str passes both comparisons
\* and fails re.search with a TypeError, which line 134 catches.
data_result(data) ==
    IF Get(data, "price", JStr(S_NA)).type # "str" THEN unexpected_error
    ELSE parsed_result(Get(data, "price", JStr(S_NA)).str,
                       Get(data, "retailer", JStr(<<"Unknown">>)).str,
                       IF Get(data, "url", JNull).type = "str"
                       THEN Get(data, "url", JNull).str ELSE None)

\* re.search(r'\$(\d+\.\d{2})\s+at\s+(\w+)', content), line 112
prose_match(content) == \E i \in DOMAIN content : content[i] = T_Amount
prose_amount == <<"3", ".", "5", "0">>
prose_retailer == <<"Walmart">>

\* re.search(r'https?://[^\s"\']+', content), line 117
url_match(content) ==
    IF \E i \in DOMAIN content : content[i] \in {T_ObjPrice, T_ObjShort, T_ObjVaries}
    THEN S_Url ELSE None

\* "Not Found" in content, "Price Varies" in content
has_not_found(content) ==
    \E i \in DOMAIN content : content[i] \in {T_NotFound, T_ObjNotFound, T_Quoted}
has_price_varies(content) ==
    \E i \in DOMAIN content : content[i] \in {T_PriceVaries, T_ObjVaries}

\* lines 108-126: json.loads raised JSONDecodeError
fallback_result(content) ==
    IF prose_match(content)
    THEN LookupResult("found", float(prose_amount),
                      <<"$">> \o float_str(float(prose_amount).v) \o <<" at ">>
                          \o prose_retailer,
                      url_match(content))
    ELSE IF has_not_found(content)
    THEN LookupResult("not_found", NoneF,
                      <<"Not Found", " via Online Retailers">>, None)
    ELSE IF has_price_varies(content)
    THEN LookupResult("varies", NoneF, <<"Price Varies">>, None)
    ELSE LookupResult("error", NoneF, <<"Could not parse price from: ">> \o content,
                      None)

\* lines 78-126.  data.get on a value that is no dict is an AttributeError,
\* which line 134 catches.
loaded_result(content, loaded) ==
    IF ~loaded.ok THEN fallback_result(content)
    ELSE IF loaded.type # "dict" THEN unexpected_error
    ELSE data_result(loaded.data)

\* lines 55-126, from content.strip() on
stripped_result(content) ==
    IF content = <<>>
    THEN LookupResult("error", NoneF, <<"Perplexity returned empty response.">>, None)
    ELSE loaded_result(content, json_loads(json_str(content)))

\* lines 54-129, once the response of the request is in
content_result(content) ==
    IF content = <<>>
    THEN LookupResult("error", NoneF, <<"Could not parse Perplexity response.">>, None)
    ELSE stripped_result(Strip(content))

\* The pieces response contents are drawn from, and the contents: every run
\* of at most MaxContentLen pieces.
Pieces ==
    {T_Fence, T_FenceJson, T_Space, T_Open, T_Close, T_ObjPrice, T_ObjShort,
     T_ObjNotFound, T_ObjVaries, T_ObjNumber, T_Amount, T_NotFound,
     T_PriceVaries, T_Quoted}
Contents == UNION {[1..n -> Pieces] : n \in 0..MaxContentLen}

get_online_grocery_price_perplexity(item_name, up) ==
    IF ~PERPLEXITY_API_KEY
    THEN LookupResult("error", NoneF, <<"Perplexity API Key not configured.">>, None)
    ELSE IF ~isinstance_str(item_name)
    THEN LookupRaised       \* item_name.replace: AttributeError, outside the try
    ELSE IF up.kind = "request_error"
    THEN LookupResult("error", NoneF, <<"Error connecting to Perplexity API">>, None)
    ELSE content_result(up.content)

\* ------------------------------------------------------------ session state
VARIABLES
    now,               \* the last reading of the wall clock, in half seconds
    inventory_state,   \* the list held by the session (gr.State)
    out,               \* what the last handler returned to the UI
    call,              \* the last handler run: the list the session held
                       \* when it started (arg_state) and, for
                       \* process_receipt, its arguments and locals
    lookup_count,      \* per inventory item: lookups ever made for it
    reported,          \* sums of the current-receipt aggregates reported
                       \* since the inventory was last cleared
    parse_call,        \* a parse_price call on its own: argument and result
    lookup_call        \* a lookup call on its own: the response and result

vars == <<GOOGLE_API_KEY, PERPLEXITY_API_KEY, now, inventory_state, out, call,
          lookup_count, reported, parse_call, lookup_call>>

\* datetime.datetime.now().isoformat(): the fraction is left out when it is 0
\* Variant: the stamp is the date alone, as date.today().isoformat() gives.
isoformat_date(t) == <<"T">>

isoformat(t) ==
    <<"T">> \o NatStr(t \div 2) \o (IF t % 2 = 0 THEN <<>> ELSE <<".", "5">>)

\* ------------------------------------------------- Receipt Aggregator: loop
Acc0 ==
    [current_receipt_total |-> 0, current_online_total |-> 0,
     current_found_count |-> 0, current_assumed_count |-> 0,
     items |-> <<>>, current_receipt_results |-> <<>>,
     infos |-> <<>>, lookups |-> <<>>, raised |-> FALSE]

\* The decision of lines 85, 91 and 97.
is_found(online_info) ==
    online_info.status = "found" /\ online_info.price.some

\* Variant: every item with a parsable paid price is assumed, found or not.
is_assumed_paid(online_info, price_paid_float) == price_paid_float.some

\* Variant: a status of "found" is never assumed, numeric price or not.
is_assumed_unfound(online_info, price_paid_float) ==
    online_info.status # "found" /\ price_paid_float.some

is_assumed(online_info, price_paid_float) ==
    ~is_found(online_info) /\ price_paid_float.some

\* Variant: the paid price is preferred whenever it parses.
online_price_paid_first(online_info, price_paid_float) ==
    IF price_paid_float.some THEN price_paid_float
    ELSE IF is_found(online_info) THEN online_info.price
    ELSE NoneF

\* Variant: only a found online price is stored; an assumed one is left out.
online_price_found_only(online_info, price_paid_float) ==
    IF is_found(online_info) THEN online_info.price ELSE NoneF

\* item_dict['online_price']
online_price_of(online_info, price_paid_float) ==
    IF is_found(online_info) THEN online_info.price
    ELSE IF is_assumed(online_info, price_paid_float) THEN price_paid_float
    ELSE NoneF

online_details_of(online_info, price_paid_float) ==
    IF is_assumed(online_info, price_paid_float)
    THEN <<"Assumed same as receipt ($">> \o Fmt2(price_paid_float.v) \o <<")">>
    ELSE online_info.details

\* current_receipt_total += price_paid_float, when there is one
add_paid(total, price_paid_float) ==
    IF price_paid_float.some THEN total + price_paid_float.v ELSE total

\* current_online_total += the online price or the paid price
add_online(total, online_info, price_paid_float) ==
    IF online_price_of(online_info, price_paid_float).some
    THEN total + online_price_of(online_info, price_paid_float).v
    ELSE total

\* The loop body over item j of the batch, once the paid price is parsed and
\* the lookup has answered (or raised).
price_check_step(acc, j, item_dict, receipt_timestamp, price_paid_float, online_info) ==
    IF online_info.raised
    THEN [acc EXCEPT
            !.current_receipt_total = add_paid(@, price_paid_float),
            !.lookups = Append(@, j),
            !.raised = TRUE]
    ELSE [current_receipt_total |->
              add_paid(acc.current_receipt_total, price_paid_float),
          current_online_total |->
              add_online(acc.current_online_total, online_info, price_paid_float),
          current_found_count |->
              acc.current_found_count + (IF is_found(online_info) THEN 1 ELSE 0),
          current_assumed_count |->
              acc.current_assumed_count
                  + (IF is_assumed(online_info, price_paid_float) THEN 1 ELSE 0),
          items |->
              Append(acc.items,
                     [online_price |-> online_price_of(online_info, price_paid_float),
                      is_assumed_price |-> is_assumed(online_info, price_paid_float),
                      online_details |->
                          online_details_of(online_info, price_paid_float),
                      url |-> online_info.url] @@ item_dict),
          current_receipt_results |->
              Append(acc.current_receipt_results,
                     [item |-> Get(item_dict, "item", <<"Unknown Item">>),
                      price_paid |-> Get(item_dict, "price_paid", S_NA),
                      online_details |->
                          online_details_of(online_info, price_paid_float),
                      url |-> online_info.url,
                      receipt_timestamp |-> receipt_timestamp]),
          infos |-> Append(acc.infos, online_info),
          lookups |-> Append(acc.lookups, j),
          raised |-> FALSE]

price_check_item(acc, j, item_dict, receipt_timestamp, up) ==
    price_check_step(acc, j, item_dict, receipt_timestamp,
                     parse_price(Get(item_dict, "price_paid", S_NA)),
                     get_online_grocery_price_perplexity(
                         Get(item_dict, "item", <<"Unknown Item">>), up))

\* The loop body at item n, given the locals after the first n - 1 items (the
\* loop stops at the item whose lookup raises).
price_check_next(acc, new_items_data, receipt_timestamp, ups, n) ==
    IF acc.raised THEN acc
    ELSE price_check_item(acc, n, new_items_data[n], receipt_timestamp,
                          Upstream(ups[n]))

\* ------------------------------------------- Receipt Aggregator: cumulative
\* The loop body over a prior item, once its paid price is parsed and its
\* stored online price and flag are read.
\* Variant: a prior item without a stored online price counts as assumed
\* whether or not its paid price parses.
cumulative_step_counts_unpriced(all, item, price_paid_float, online_price, is_assumed_price) ==
    [all_receipts_total |-> add_paid(all.all_receipts_total, price_paid_float),
     all_online_total |->
         IF online_price.some THEN all.all_online_total + online_price.v
         ELSE add_paid(all.all_online_total, price_paid_float),
     all_found_count |->
         all.all_found_count
             + (IF online_price.some /\ ~is_assumed_price THEN 1 ELSE 0),
     all_assumed_count |->
         all.all_assumed_count
             + (IF online_price.some /\ ~is_assumed_price THEN 0 ELSE 1),
     all_receipts_results |-> all.all_receipts_results,
     lookups |-> all.lookups]

cumulative_step(all, item, price_paid_float, online_price, is_assumed_price) ==
    [all_receipts_total |-> add_paid(all.all_receipts_total, price_paid_float),
     all_online_total |->
         IF online_price.some THEN all.all_online_total + online_price.v
         ELSE IF price_paid_float.some
         THEN all.all_online_total + price_paid_float.v
         ELSE all.all_online_total,
     all_found_count |->
         all.all_found_count
             + (IF online_price.some /\ ~is_assumed_price THEN 1 ELSE 0),
     all_assumed_count |->
         all.all_assumed_count
             + (IF online_price.some
                THEN (IF is_assumed_price THEN 1 ELSE 0)
                ELSE (IF price_paid_float.some THEN 1 ELSE 0)),
     all_receipts_results |->
         Append(all.all_receipts_results,
                [item |-> Get(item, "item", <<"Unknown">>),
                 price_paid |-> Get(item, "price_paid", S_NA),
                 online_details |-> Get(item, "online_details", S_NA),
                 url |-> Get(item, "url", None),
                 receipt_timestamp |-> Get(item, "receipt_timestamp", <<>>)]),
     lookups |-> all.lookups]

\* Variant: the stored online price is ignored and the paid price stands in.
cumulative_item_unstored(all, j, item) ==
    cumulative_step(all, item, parse_price(Get(item, "price_paid", S_NA)),
                    NoneF, FALSE)

\* One pass over the prior item at index j of the inventory: no lookup.
cumulative_item(all, j, item) ==
    cumulative_step(all, item,
                    parse_price(Get(item, "price_paid", S_NA)),
                    Get(item, "online_price", NoneF),
                    Get(item, "is_assumed_price", FALSE))

previous_receipt(item, receipt_timestamp) ==
    Get(item, "receipt_timestamp", <<>>) # receipt_timestamp

\* lines 115-119: the cumulative aggregate starts from the current one
All0(acc) ==
    [all_receipts_total |-> acc.current_receipt_total,
     all_online_total |-> acc.current_online_total,
     all_found_count |-> acc.current_found_count,
     all_assumed_count |-> acc.current_assumed_count,
     all_receipts_results |-> acc.current_receipt_results,
     lookups |-> <<>>]

RECURSIVE cumulative(_, _, _, _)
cumulative_next(all, item, receipt_timestamp, n) ==
    IF previous_receipt(item, receipt_timestamp)
    THEN cumulative_item(all, n, item)
    ELSE all

cumulative(acc, current_inventory_state, receipt_timestamp, n) ==
    IF n = 0 THEN All0(acc)
    ELSE cumulative_next(
             cumulative(acc, current_inventory_state, receipt_timestamp, n - 1),
             current_inventory_state[n], receipt_timestamp, n)

\* -------------------------------------------------------- Summary Formatter
\* Variant: a tie is labelled like a positive difference.
diff_status_loose(diff) ==
    IF diff >= 0 THEN "cheaper online" ELSE "cheaper in store"

diff_status(diff) ==
    IF diff > 0 THEN "cheaper online"
    ELSE IF diff < 0 THEN "cheaper in store"
    ELSE "same price"

\* One block of the report: the paid total, and the online comparison or N/A.
summary_block(paid, online, found_count, assumed_count, items) ==
    [paid |-> Fmt2(paid),
     compared |-> found_count > 0 \/ assumed_count > 0,
     total_compared |-> found_count + assumed_count,
     of_items |-> Len(items),
     assumed_note |-> assumed_count,
     online |-> Fmt2(online),
     difference |-> Fmt2(Abs(paid - online)),
     status |-> diff_status(paid - online)]

\* Variant: only the paid totals are compared.
show_cumulative_paid(all_items, current_items, all_receipts_paid, current_receipt_paid) ==
    Abs(all_receipts_paid - current_receipt_paid) > 1

show_cumulative(all_items, current_items, all_receipts_paid, current_receipt_paid) ==
    \/ Len(all_items) > Len(current_items)
    \/ Abs(all_receipts_paid - current_receipt_paid) > 1

NoSummary == [empty |-> TRUE]

format_comparison_summary(current_items, current_receipt_paid, current_online_total, current_found_count, current_assumed_count, all_items, all_receipts_paid, all_online_total, all_found_count, all_assumed_count) ==
    [empty |-> FALSE,
     latest |-> summary_block(current_receipt_paid, current_online_total,
                              current_found_count, current_assumed_count,
                              current_items),
     has_cumulative |-> show_cumulative(all_items, current_items,
                                        all_receipts_paid, current_receipt_paid),
     cumulative |-> summary_block(all_receipts_paid, all_online_total,
                                  all_found_count, all_assumed_count, all_items),
     items |-> [i \in DOMAIN current_items |->
                  [item |-> Get(current_items[i], "item", <<"Unknown">>),
                   price_paid |-> Get(current_items[i], "price_paid", S_NA),
                   online_details |->
                       Get(current_items[i], "online_details", <<"Not found">>),
                   link |-> Get(current_items[i], "url", None)]]]

\* ------------------------------------------------------------ table, export
NaN == <<"NaN">>

\* pd.DataFrame(list of dicts)[key], with the default for a column that no
\* dict provides
frame_cell(items, i, key, default) ==
    IF \A k \in DOMAIN items : key \notin DOMAIN items[k] THEN default
    ELSE Get(items[i], key, NaN)

frame_rows(items, default_item, default_price, default_expiry) ==
    [i \in DOMAIN items |->
       [Item |-> frame_cell(items, i, "item", default_item),
        PricePaid |-> frame_cell(items, i, "price_paid", default_price),
        PredictedExpiryDate |->
            frame_cell(items, i, "predicted_expiry", default_expiry)]]

\* The table process_receipt renders from the inventory.
inventory_frame(current_inventory_state) ==
    frame_rows(current_inventory_state, <<"Unknown Item">>, S_NA, S_NA)

\* pd.DataFrame(dicts, columns=[the three headers]): the dicts have none of
\* these columns
headers_frame(current_inventory_state) ==
    [i \in DOMAIN current_inventory_state |->
       [Item |-> NaN, PricePaid |-> NaN, PredictedExpiryDate |-> NaN]]

\* Variant: the frame is built with columns= the display headers, as the
\* early returns of process_receipt build theirs.
prepare_frame_columns(inventory_state_arg) == headers_frame(inventory_state_arg)

\* The table prepare_for_next_receipt renders from the inventory.
prepare_frame(inventory_state_arg) ==
    IF \E i \in DOMAIN inventory_state_arg : "item" \in DOMAIN inventory_state_arg[i]
    THEN frame_rows(inventory_state_arg, S_NA, S_NA, S_NA)
    ELSE [i \in DOMAIN inventory_state_arg |->
            [Item |-> S_NA, PricePaid |-> S_NA, PredictedExpiryDate |-> S_NA]]

NoFile == [present |-> FALSE, rows |-> <<>>]
\* Variant: only the newest row is written.
csv_file_newest(full_df) ==
    [present |-> TRUE, rows |-> SubSeq(full_df, Len(full_df), Len(full_df))]

\* full_df.to_csv(...): the export file, header and rows
csv_file(full_df) == [present |-> TRUE, rows |-> full_df]

\* Variant: the total display is blanked instead of set to "Cleared".
clear_inventory_blank ==
    [state |-> <<>>, df |-> <<>>, file |-> NoFile, total |-> <<>>,
     summary |-> NoSummary]

\* clear_inventory(): [], empty_df, None, "Cleared", ""
clear_inventory ==
    [state |-> <<>>, df |-> <<>>, file |-> NoFile, total |-> <<"Cleared">>,
     summary |-> NoSummary]

\* prepare_for_next_receipt(inventory_state): None, inventory_state,
\* inventory_df, "", None, ""
prepare_for_next_receipt(inventory_state_arg) ==
    [image |-> "cleared", state |-> inventory_state_arg,
     df |-> prepare_frame(inventory_state_arg), total |-> <<>>,
     file |-> NoFile, summary |-> NoSummary]

\* ------------------------------------------------------- Receipt Aggregator
Faults == {"none", "csv", "table"}

NoCall ==
    [image |-> FALSE, arg_state |-> <<>>, receipt_timestamp |-> <<>>,
     extraction |-> [items |-> <<>>, total |-> <<>>],
     new_items_data |-> <<>>, ups |-> <<>>, trace |-> <<Acc0>>, loop |-> Acc0,
     all |-> All0(Acc0), summarised |-> FALSE, appended |-> FALSE,
     fault |-> "none", passed_list |-> <<>>]

Return(outcome, df, total, file, state, summary, locals) ==
    [outcome |-> outcome, df |-> df, total |-> total, file |-> file,
     state |-> state, summary |-> summary, locals |-> locals]

S_UploadFirst == <<"Upload receipt first">>
S_NoItems == <<"No items found in receipt.">>
S_Unexpected == <<"An unexpected error occurred in processing: ">>

\* line 22: no image
\* Variant: the early return hands back a fresh empty list.
no_image_return_cleared(current_inventory_state) ==
    Return("no_image", <<>>, S_UploadFirst, NoFile, <<>>, NoSummary,
           [NoCall EXCEPT !.arg_state = current_inventory_state,
                          !.passed_list = current_inventory_state])

no_image_return(current_inventory_state) ==
    Return("no_image", <<>>, S_UploadFirst, NoFile, current_inventory_state,
           NoSummary,
           [NoCall EXCEPT !.arg_state = current_inventory_state,
                          !.passed_list = current_inventory_state])

has_error_sentinel(latest_total_amount) ==
    /\ isinstance_str(latest_total_amount)
    /\ Contains(latest_total_amount, S_ErrorSentinel)

\* Variant: the generic message whatever the extraction's total text.
no_items_return_generic(current_inventory_state, receipt_timestamp, extraction) ==
    Return("no_items", headers_frame(current_inventory_state), S_NoItems,
           NoFile, current_inventory_state, NoSummary,
           [NoCall EXCEPT !.image = TRUE,
                          !.arg_state = current_inventory_state,
                          !.receipt_timestamp = receipt_timestamp,
                          !.extraction = extraction,
                          !.passed_list = current_inventory_state])

\* lines 44-49: the extraction returned no items
no_items_return(current_inventory_state, receipt_timestamp, extraction) ==
    Return(IF has_error_sentinel(extraction.total)
           THEN "extraction_error" ELSE "no_items",
           headers_frame(current_inventory_state),
           IF has_error_sentinel(extraction.total)
           THEN extraction.total ELSE S_NoItems,
           NoFile, current_inventory_state, NoSummary,
           [NoCall EXCEPT !.image = TRUE,
                          !.arg_state = current_inventory_state,
                          !.receipt_timestamp = receipt_timestamp,
                          !.extraction = extraction,
                          !.passed_list = current_inventory_state])

\* lines 53-54
tag(item, receipt_timestamp) == [receipt_timestamp |-> receipt_timestamp] @@ item
tag_all(new_items_data, receipt_timestamp) ==
    [i \in DOMAIN new_items_data |-> tag(new_items_data[i], receipt_timestamp)]

\* The locals of the loop after 0, 1, ..., k items.
RECURSIVE price_trace_upto(_, _, _, _)
price_trace_next(trace, new_items_data, receipt_timestamp, ups) ==
    Append(trace,
           price_check_next(trace[Len(trace)], new_items_data, receipt_timestamp,
                            ups, Len(trace)))

price_trace_upto(new_items_data, receipt_timestamp, ups, n) ==
    IF n = 0 THEN <<Acc0>>
    ELSE price_trace_next(price_trace_upto(new_items_data, receipt_timestamp, ups,
                                           n - 1),
                          new_items_data, receipt_timestamp, ups)

price_trace(new_items_data, receipt_timestamp, ups) ==
    price_trace_upto(new_items_data, receipt_timestamp, ups, Len(new_items_data))

\* The dicts of new_items_data as the loop leaves them: those it went through
\* carry the lookup fields.
looked_up(new_items_data, loop) ==
    loop.items \o SubSeq(new_items_data, Len(loop.items) + 1, Len(new_items_data))

\* Variant: the batch goes in front of the prior items.
extend_front(current_inventory_state, new_items_data) ==
    new_items_data \o current_inventory_state

\* line 161: current_inventory_state.extend(new_items_data), on the list the
\* session holds
extend(current_inventory_state, new_items_data) ==
    current_inventory_state \o new_items_data

summary_of(loop, all) ==
    format_comparison_summary(
        loop.current_receipt_results,
        loop.current_receipt_total, loop.current_online_total,
        loop.current_found_count, loop.current_assumed_count,
        all.all_receipts_results, all.all_receipts_total,
        all.all_online_total, all.all_found_count, all.all_assumed_count)

\* lines 163-204, with the list extended: the table and the export, or the
\* except branch when building them raises
rendered(latest_total_amount, extended, summary, fault, locals) ==
    IF fault = "table"
    THEN Return("error", headers_frame(extended), S_Unexpected, NoFile,
                extended, summary, [locals EXCEPT !.fault = fault])
    ELSE Return("ok", inventory_frame(extended), latest_total_amount,
                IF fault = "csv" THEN NoFile
                ELSE csv_file(inventory_frame(extended)),
                extended, summary, [locals EXCEPT !.fault = fault])

\* The arguments and locals of a call that got as far as the loop.
\*   done         lines 113-161 ran: the summary is built, line 161 has run
\*   list_object  what the list passed in as current_inventory_state holds
\*                when the call returns
Locals(current_inventory_state, receipt_timestamp, extraction, new_items_data, ups, trace, loop, all, done, list_object) ==
    [image |-> TRUE, arg_state |-> current_inventory_state,
     receipt_timestamp |-> receipt_timestamp, extraction |-> extraction,
     new_items_data |-> new_items_data, ups |-> ups, trace |-> trace,
     loop |-> loop, all |-> all, summarised |-> done, appended |-> done,
     fault |-> "none", passed_list |-> list_object]

\* lines 113-161, after the loop
aggregated(current_inventory_state, receipt_timestamp, extraction, new_items_data, ups, fault, trace, loop, all) ==
    IF loop.raised
    THEN Return("error", headers_frame(current_inventory_state), S_Unexpected,
                NoFile, current_inventory_state, NoSummary,
                Locals(current_inventory_state, receipt_timestamp, extraction,
                       looked_up(new_items_data, loop), ups, trace, loop, all,
                       FALSE, current_inventory_state))
    ELSE rendered(extraction.total,
                  extend(current_inventory_state, looked_up(new_items_data, loop)),
                  summary_of(loop, all), fault,
                  Locals(current_inventory_state, receipt_timestamp, extraction,
                         looked_up(new_items_data, loop), ups, trace, loop, all,
                         TRUE,
                         extend(current_inventory_state,
                                looked_up(new_items_data, loop))))

price_checked(current_inventory_state, receipt_timestamp, extraction, new_items_data, ups, fault, trace) ==
    aggregated(current_inventory_state, receipt_timestamp, extraction,
               new_items_data, ups, fault, trace, trace[Len(trace)],
               cumulative(trace[Len(trace)], current_inventory_state,
                          receipt_timestamp, Len(current_inventory_state)))

\* process_receipt after the image check: the returned tuple, the list object
\* `state` as the call leaves it, and the call's locals.
\*   extraction  what the extraction path returned, (items, total)
\*   ups         the search model's answer for each item
\*   fault       "csv": to_csv fails (handled at line 189);
\*               "table": building the table or the gr.File raises (lines
\*               163-192), handled by the except branch of line 195
process_receipt(current_inventory_state, receipt_timestamp, extraction, ups, fault) ==
    IF extraction.items = <<>>
    THEN no_items_return(current_inventory_state, receipt_timestamp, extraction)
    ELSE price_checked(current_inventory_state, receipt_timestamp, extraction,
                       tag_all(extraction.items, receipt_timestamp), ups, fault,
                       price_trace(tag_all(extraction.items, receipt_timestamp),
                                   receipt_timestamp, ups))

\* ------------------------------------------------------------------ actions
NoReport == [paid |-> 0, online |-> 0, found |-> 0, assumed |-> 0]

Count(s, x) == Cardinality({i \in DOMAIN s : s[i] = x})

UI(op, outcome, image, df, total, file, summary) ==
    [op |-> op, outcome |-> outcome, image |-> image, df |-> df,
     total |-> total, file |-> file, summary |-> summary]

NoParse == [price_str |-> <<>>, done |-> FALSE, result |-> NoneF]
NoLookup == [up |-> Upstream(5), done |-> FALSE, result |-> LookupRaised]

Init ==
    /\ GOOGLE_API_KEY \in BOOLEAN
    /\ PERPLEXITY_API_KEY \in BOOLEAN
    /\ now = 0
    /\ inventory_state = <<>>
    /\ out = UI("init", "init", "kept", <<>>, <<>>, NoFile, NoSummary)
    /\ call = NoCall
    /\ lookup_count = <<>>
    /\ reported = NoReport
    /\ parse_call = NoParse
    /\ lookup_call = NoLookup

\* The handler's outputs reach the UI; the returned list becomes the state.
Returned(ret) ==
    /\ inventory_state' = ret.state
    /\ out' = UI("process", ret.outcome, "kept", ret.df, ret.total, ret.file,
                 ret.summary)
    /\ call' = ret.locals
    /\ lookup_count' =
           [i \in DOMAIN inventory_state |->
               lookup_count[i] + Count(ret.locals.all.lookups, i)]
           \o (IF ret.locals.appended
               THEN [j \in DOMAIN ret.locals.new_items_data |->
                        Count(ret.locals.loop.lookups, j)]
               ELSE <<>>)
    /\ reported' =
           IF ret.locals.summarised
           THEN [paid |-> reported.paid + ret.locals.loop.current_receipt_total,
                 online |-> reported.online + ret.locals.loop.current_online_total,
                 found |-> reported.found + ret.locals.loop.current_found_count,
                 assumed |-> reported.assumed
                                + ret.locals.loop.current_assumed_count]
           ELSE reported
    /\ UNCHANGED <<GOOGLE_API_KEY, PERPLEXITY_API_KEY, parse_call, lookup_call>>

\* The search model's answers for a batch of k items.  No request is made
\* without the credential.  Short batches get every combination of answers;
\* longer ones (the mock's) get the uniform and the rotating combinations.
Answers(k) ==
    IF ~PERPLEXITY_API_KEY THEN {[i \in 1..k |-> 5]}
    ELSE IF k <= MaxInv THEN [1..k -> Upstreams]
    ELSE {[i \in 1..k |-> u] : u \in Upstreams}
         \cup {[i \in 1..k |-> ((i + u) % 5) + 1] : u \in Upstreams}

\* The rest of process_receipt, once the clock is read as t and the
\* extraction path has returned.
ProcessImage(t, extraction, room) ==
    /\ Len(inventory_state) + Len(extraction.items) <= room
    /\ now' = t
    /\ \E ups \in Answers(Len(extraction.items)), fault \in Faults :
          \E ret \in {process_receipt(inventory_state, isoformat(t), extraction,
                                      ups, fault)} :
             Returned(ret)

\* submit_button.click: process_receipt(receipt_input, inventory_state)
\* Every call that gets past the image check reads the clock, and reads it
\* later than the call before did: each such call spans an extraction call.
\* A wall clock set back between two clicks is not modelled.
ProcessReceipt ==
    \/ /\ UNCHANGED now
       /\ \E ret \in {no_image_return(inventory_state)} : Returned(ret)
    \/ \E t \in (now + 1)..(now + 2) :
          /\ t <= MaxNow
          /\ \/ /\ GOOGLE_API_KEY
                /\ \E r \in Responses :
                      ProcessImage(t, call_gemini_vision_api(GeminiResponse(r)), MaxInv)
             \/ /\ ~GOOGLE_API_KEY
                /\ \E draw \in MockDraws :
                      ProcessImage(t, mock_gemini_vision_processor(draw), MaxMockInv)

\* clear_button.click: clear_inventory()
ClearInventory ==
    /\ inventory_state' = clear_inventory.state
    /\ out' = UI("clear", "cleared", "kept", clear_inventory.df,
                 clear_inventory.total, clear_inventory.file,
                 clear_inventory.summary)
    /\ call' = [NoCall EXCEPT !.arg_state = inventory_state,
                              !.passed_list = inventory_state]
    /\ lookup_count' = <<>>
    /\ reported' = NoReport
    /\ UNCHANGED <<GOOGLE_API_KEY, PERPLEXITY_API_KEY, now, parse_call,
                   lookup_call>>

\* add_receipt_button.click: prepare_for_next_receipt(inventory_state)
PrepareForNextReceipt ==
    /\ inventory_state' = prepare_for_next_receipt(inventory_state).state
    /\ out' = UI("prepare", "prepared",
                 prepare_for_next_receipt(inventory_state).image,
                 prepare_for_next_receipt(inventory_state).df,
                 prepare_for_next_receipt(inventory_state).total,
                 prepare_for_next_receipt(inventory_state).file,
                 prepare_for_next_receipt(inventory_state).summary)
    /\ call' = [NoCall EXCEPT !.arg_state = inventory_state,
                              !.passed_list = inventory_state]
    /\ UNCHANGED <<GOOGLE_API_KEY, PERPLEXITY_API_KEY, now, lookup_count,
                   reported, parse_call, lookup_call>>

Next == ProcessReceipt \/ ClearInventory \/ PrepareForNextReceipt

Spec == Init /\ [][Next]_vars

\* ------------------------------------------------------ parse_price alone
\* The characters price texts are drawn from.
PriceChars == {"$", ",", " ", "-", ".", "1", "5"}

\* The texts parse_price is applied to: every text of at most MaxPriceLen
\* characters with at most two characters after its first ".", and None.
PriceTexts ==
    {None} \cup
    {s \in UNION {[1..n -> PriceChars] : n \in 0..MaxPriceLen} :
        Len(s) - dot_index(s) <= 2}

InitParse ==
    /\ GOOGLE_API_KEY = FALSE
    /\ PERPLEXITY_API_KEY = FALSE
    /\ now = 0
    /\ inventory_state = <<>>
    /\ out = UI("init", "init", "kept", <<>>, <<>>, NoFile, NoSummary)
    /\ call = NoCall
    /\ lookup_count = <<>>
    /\ reported = NoReport
    /\ lookup_call = NoLookup
    /\ \E s \in PriceTexts : parse_call = [NoParse EXCEPT !.price_str = s]

\* parse_price(price_str) returns
ParsePrice ==
    /\ ~parse_call.done
    /\ parse_call' = [parse_call EXCEPT !.done = TRUE,
                                        !.result = parse_price(parse_call.price_str)]
    /\ UNCHANGED <<GOOGLE_API_KEY, PERPLEXITY_API_KEY, now, inventory_state, out,
                   call, lookup_count, reported, lookup_call>>

NextParse == ParsePrice

SpecParse == InitParse /\ [][NextParse]_vars

\* ------------------------------------------------------ the lookup alone
\* The answers the lookup is applied to: every content of at most
\* MaxContentLen pieces, and the failure of the request.
LookupAnswers ==
    {Upstream(5)} \cup
    {[kind |-> "content", content |-> c] : c \in Contents}

InitLookup ==
    /\ GOOGLE_API_KEY = FALSE
    /\ PERPLEXITY_API_KEY = TRUE
    /\ now = 0
    /\ inventory_state = <<>>
    /\ out = UI("init", "init", "kept", <<>>, <<>>, NoFile, NoSummary)
    /\ call = NoCall
    /\ lookup_count = <<>>
    /\ reported = NoReport
    /\ parse_call = NoParse
    /\ \E up \in LookupAnswers : lookup_call = [NoLookup EXCEPT !.up = up]

\* get_online_grocery_price_perplexity(item_name) returns
LookupPrice ==
    /\ ~lookup_call.done
    /\ lookup_call' =
           [lookup_call EXCEPT
               !.done = TRUE,
               !.result = get_online_grocery_price_perplexity(<<"Milk">>,
                                                              lookup_call.up)]
    /\ UNCHANGED <<GOOGLE_API_KEY, PERPLEXITY_API_KEY, now, inventory_state, out,
                   call, lookup_count, reported, parse_call>>

NextLookup == LookupPrice

SpecLookup == InitLookup /\ [][NextLookup]_vars

\* ------------------------------------------------------------- Properties
\* `call` holds the arguments and locals of the last handler run, `out` what
\* it returned; inventory_state is the list the session holds afterwards.

\* The last handler run was process_receipt on an image.
ImageCall == out.op = "process" /\ call.image

\* The paid price of item j of the last batch, parsed.
PaidOf(j) == parse_price(Get(call.new_items_data[j], "price_paid", S_NA))

\* What the lookup answered for item j of the last batch.
FoundRow(j) ==
    call.loop.infos[j].status = "found" /\ call.loop.infos[j].price.some
AssumedRow(j) == PaidOf(j).some /\ ~FoundRow(j)
ExcludedRow(j) ==
    /\ ~PaidOf(j).some
    /\ call.loop.infos[j].status \in {"not_found", "varies", "error"}

\* The four aggregates are the same in two sets of locals.
SameCurrent(a, b) ==
    /\ a.current_receipt_total = b.current_receipt_total
    /\ a.current_online_total = b.current_online_total
    /\ a.current_found_count = b.current_found_count
    /\ a.current_assumed_count = b.current_assumed_count
SameCumulative(a, b) ==
    /\ a.all_receipts_total = b.all_receipts_total
    /\ a.all_online_total = b.all_online_total
    /\ a.all_found_count = b.all_found_count
    /\ a.all_assumed_count = b.all_assumed_count

\* A stored item with neither a parsable paid price nor an online price.
Unpriced(item) ==
    /\ ~parse_price(Get(item, "price_paid", S_NA)).some
    /\ ~Get(item, "online_price", NoneF).some
Priced(item) == ~Unpriced(item)

\* C1: a process_receipt call that ends in a failure (in extraction, tagging,
\* the lookups, aggregation, the append, or the building of the table and the
\* export) returns a displayable error total, and the inventory it returns,
\* which is the list the session holds, is exactly the one passed in.
C1_FailureLeavesInventory ==
    (out.op = "process" /\ out.outcome \in {"error", "extraction_error"}) =>
        /\ out.total # <<>>
        /\ inventory_state = call.arg_state

\* C2: with no clear in between, the cumulative paid total, online total,
\* found count and assumed count reported by a call equal the sums of the
\* current-receipt values reported by every call up to and including it,
\* in the aggregates and in the cumulative block of the report when shown.
C2_CumulativeIsSumOfReported ==
    (out.op = "process" /\ call.summarised) =>
        /\ call.all.all_receipts_total = reported.paid
        /\ call.all.all_online_total = reported.online
        /\ call.all.all_found_count = reported.found
        /\ call.all.all_assumed_count = reported.assumed
        /\ out.summary.has_cumulative =>
              /\ out.summary.cumulative.paid = Fmt2(reported.paid)
              /\ out.summary.cumulative.online = Fmt2(reported.online)
              /\ out.summary.cumulative.total_compared
                     = reported.found + reported.assumed
              /\ out.summary.cumulative.assumed_note = reported.assumed

\* Milk $4.00 found at 3.50, then Bread $2.00 with a lookup error.
C2_Witness ==
    /\ out.op = "process" /\ out.outcome = "ok"
    /\ Len(call.arg_state) = 1 /\ Len(call.new_items_data) = 1
    /\ call.arg_state[1].item = <<"Milk">>
    /\ call.new_items_data[1].item = <<"Bread">>
    /\ call.loop.infos[1].status = "error"
    /\ call.all.all_receipts_total = 600
    /\ call.all.all_online_total = 550
    /\ call.all.all_found_count = 1
    /\ call.all.all_assumed_count = 1
    /\ out.summary.has_cumulative

\* C3: every item of the inventory has had at most one lookup, and a
\* process_receipt call that extracts k items performs exactly k lookups, one
\* per extracted item in extraction order, and none for the prior items.
C3_OneLookupPerItem ==
    /\ \A i \in DOMAIN lookup_count : lookup_count[i] <= 1
    /\ ImageCall =>
          /\ Len(call.loop.lookups) = Len(call.extraction.items)
          /\ \A j \in DOMAIN call.loop.lookups : call.loop.lookups[j] = j
          /\ call.all.lookups = <<>>

\* C4: every item of the inventory carries a non-empty receipt_timestamp, and
\* the receipt_timestamp a call generates differs from that of every item
\* already in the inventory; the items it appends all carry it.
C4_BatchIdsFresh ==
    /\ \A i \in DOMAIN inventory_state :
          /\ "receipt_timestamp" \in DOMAIN inventory_state[i]
          /\ inventory_state[i].receipt_timestamp \notin {<<>>, None}
    /\ ImageCall =>
          /\ call.receipt_timestamp # <<>>
          /\ \A i \in DOMAIN call.arg_state :
                call.arg_state[i].receipt_timestamp # call.receipt_timestamp
          /\ call.appended =>
                \A j \in DOMAIN call.new_items_data :
                    inventory_state[Len(call.arg_state) + j].receipt_timestamp
                        = call.receipt_timestamp

\* A second batch lands next to a first one.
C4_Witness ==
    /\ ImageCall /\ call.appended
    /\ call.arg_state # <<>> /\ call.new_items_data # <<>>
    /\ Len(inventory_state) = Len(call.arg_state) + Len(call.new_items_data)

\* C5: process_receipt without an image returns the "upload first" total, an
\* empty summary and no export file, extracts nothing, looks nothing up, and
\* returns the inventory it was passed.
C5_NoImage ==
    (out.op = "process" /\ ~call.image) =>
        /\ out.outcome = "no_image"
        /\ out.total = S_UploadFirst
        /\ out.summary.empty
        /\ ~out.file.present
        /\ call.extraction.items = <<>> /\ call.receipt_timestamp = <<>>
        /\ call.loop.lookups = <<>> /\ call.all.lookups = <<>>
        /\ inventory_state = call.arg_state

C5_Witness ==
    out.op = "process" /\ out.outcome = "no_image" /\ inventory_state # <<>>

\* C6: when the extraction yields no items the returned inventory is the one
\* passed in, no lookup is made and the summary is empty; the total text is
\* the extraction's total text when that carries "Error:", and the "no items
\* found" message otherwise.
C6_ZeroItems ==
    (ImageCall /\ call.extraction.items = <<>>) =>
        /\ inventory_state = call.arg_state
        /\ call.loop.lookups = <<>> /\ call.all.lookups = <<>>
        /\ out.summary.empty
        /\ out.total =
              IF /\ isinstance_str(call.extraction.total)
                 /\ Contains(call.extraction.total, S_ErrorSentinel)
              THEN call.extraction.total
              ELSE S_NoItems

\* The adapter's own invalid-JSON result reaches the display, over a
\* non-empty inventory.
C6_Witness ==
    /\ ImageCall /\ call.extraction.items = <<>>
    /\ inventory_state # <<>>
    /\ out.total = <<"Error:", " Invalid JSON response from AI">>

\* C7: an extracted item whose lookup answers "found" with a numeric price,
\* whether or not its paid price parses, adds exactly the lookup price to the
\* current online total, adds one to the found count and nothing to the
\* assumed count, and is stored with that price and is_assumed_price false.
C7_FoundRow ==
    ImageCall =>
        \A j \in DOMAIN call.loop.infos :
            FoundRow(j) =>
                /\ call.trace[j + 1].current_online_total
                       = call.trace[j].current_online_total
                             + call.loop.infos[j].price.v
                /\ call.trace[j + 1].current_found_count
                       = call.trace[j].current_found_count + 1
                /\ call.trace[j + 1].current_assumed_count
                       = call.trace[j].current_assumed_count
                /\ call.new_items_data[j].online_price = call.loop.infos[j].price
                /\ call.new_items_data[j].is_assumed_price = FALSE
                /\ call.appended =>
                       inventory_state[Len(call.arg_state) + j]
                           = call.new_items_data[j]

\* A found item whose paid price does not parse, and one whose paid price
\* does, each stored by a call that went through.
C7_Witness ==
    /\ ImageCall /\ out.outcome = "ok"
    /\ \E j \in DOMAIN call.loop.infos : FoundRow(j) /\ ~PaidOf(j).some
    /\ \E j \in DOMAIN call.loop.infos :
          FoundRow(j) /\ PaidOf(j).some /\ PaidOf(j) # call.loop.infos[j].price

\* C8: an extracted item with a parsable paid price whose lookup answers
\* not_found, varies, error, or found without a numeric price adds exactly
\* its paid price to the current online total, adds one to the assumed count
\* and nothing to the found count, and is stored with online_price equal to
\* the paid price and is_assumed_price true.
C8_AssumedRow ==
    ImageCall =>
        \A j \in DOMAIN call.loop.infos :
            AssumedRow(j) =>
                /\ call.trace[j + 1].current_online_total
                       = call.trace[j].current_online_total + PaidOf(j).v
                /\ call.trace[j + 1].current_assumed_count
                       = call.trace[j].current_assumed_count + 1
                /\ call.trace[j + 1].current_found_count
                       = call.trace[j].current_found_count
                /\ call.new_items_data[j].online_price = PaidOf(j)
                /\ call.new_items_data[j].is_assumed_price = TRUE
                /\ call.appended =>
                       inventory_state[Len(call.arg_state) + j]
                           = call.new_items_data[j]

\* One batch with a priced item found without a numeric price and a priced
\* item not found.
C8_Witness ==
    /\ ImageCall /\ out.outcome = "ok"
    /\ \E j \in DOMAIN call.loop.infos :
          AssumedRow(j) /\ call.loop.infos[j].status = "found"
    /\ \E j \in DOMAIN call.loop.infos :
          AssumedRow(j) /\ call.loop.infos[j].status \in {"not_found", "varies", "error"}

\* C9: an extracted item without a parsable paid price whose lookup answers
\* not_found, varies or error changes none of the four current aggregates of
\* its own batch and is appended all the same; the cumulative aggregates of a
\* later call are what they would be without the unpriced items of the
\* inventory it was passed.
C9_ExcludedRow ==
    /\ ImageCall =>
          \A j \in DOMAIN call.loop.infos :
              ExcludedRow(j) =>
                  /\ SameCurrent(call.trace[j + 1], call.trace[j])
                  /\ ~call.new_items_data[j].online_price.some
                  /\ call.summarised =>
                         inventory_state[Len(call.arg_state) + j]
                             = call.new_items_data[j]
    /\ (out.op = "process" /\ call.summarised) =>
          SameCumulative(
              call.all,
              cumulative(call.loop, SelectSeq(call.arg_state, Priced),
                         call.receipt_timestamp,
                         Len(SelectSeq(call.arg_state, Priced))))

\* An excluded item in the batch of a call whose inventory already held one.
C9_Witness ==
    /\ ImageCall /\ call.summarised
    /\ \E i \in DOMAIN call.arg_state : Unpriced(call.arg_state[i])
    /\ \E j \in DOMAIN call.loop.infos : ExcludedRow(j)

\* C10: after a process_receipt call that went through, the inventory is the
\* one passed in, item for item in the same order, followed by the extracted
\* items of this batch in extraction order, each with its extracted fields.
C10_AppendFrame ==
    (out.op = "process" /\ out.outcome = "ok") =>
        /\ Len(inventory_state)
               = Len(call.arg_state) + Len(call.extraction.items)
        /\ \A i \in DOMAIN call.arg_state : inventory_state[i] = call.arg_state[i]
        /\ \A j \in DOMAIN call.extraction.items :
              \A k \in DOMAIN call.extraction.items[j] :
                  /\ k \in DOMAIN inventory_state[Len(call.arg_state) + j]
                  /\ inventory_state[Len(call.arg_state) + j][k]
                         = call.extraction.items[j][k]

\* A batch of one lands behind a different prior item.
C10_Witness ==
    /\ out.op = "process" /\ out.outcome = "ok"
    /\ Len(call.arg_state) = 1 /\ Len(call.extraction.items) = 1
    /\ call.arg_state[1].item # call.extraction.items[1].item

\* C11: process_receipt never modifies the list object it is passed: when
\* the call returns, that object holds what it held when the call started.
C11_PassedListUntouched ==
    out.op = "process" => call.passed_list = call.arg_state

\* C12: in every summary process_receipt produces, the found count plus the
\* assumed count is at most the number of line results, in the
\* current-receipt aggregate and in the all-receipts aggregate, and in the
\* "compared/of" figures of both blocks of the report.
C12_CountsWithinItems ==
    (out.op = "process" /\ call.summarised) =>
        /\ call.loop.current_found_count + call.loop.current_assumed_count
               <= Len(call.loop.current_receipt_results)
        /\ call.all.all_found_count + call.all.all_assumed_count
               <= Len(call.all.all_receipts_results)
        /\ out.summary.latest.total_compared <= out.summary.latest.of_items
        /\ out.summary.cumulative.total_compared
               <= out.summary.cumulative.of_items

\* A second receipt over an inventory that holds an uncounted item.
C12_Witness ==
    /\ out.op = "process" /\ call.summarised
    /\ call.arg_state # <<>>
    /\ call.all.all_found_count + call.all.all_assumed_count >= 1
    /\ call.all.all_found_count + call.all.all_assumed_count
           < Len(call.all.all_receipts_results)
    /\ Len(call.all.all_receipts_results)
           = Len(call.arg_state) + Len(call.new_items_data)

\* C13: clear_inventory, after any sequence of calls and whatever the
\* inventory holds, leaves an empty inventory, an empty table, no export
\* file, the total text "Cleared" and an empty summary.
C13_ClearEmpties ==
    out.op = "clear" =>
        /\ inventory_state = <<>>
        /\ out.df = <<>>
        /\ ~out.file.present
        /\ out.total = <<"Cleared">>
        /\ out.summary.empty

\* The inventory held items when it was cleared.
C13_Witness == out.op = "clear" /\ call.arg_state # <<>>

\* C14: a prepare_for_next_receipt step leaves the inventory as it was given,
\* reads no clock and makes no lookup (the aggregator does not run), clears
\* the image, the total text, the export and the comparison, and renders the
\* rows process_receipt renders for that inventory: the very table on display
\* when the step follows a process_receipt call that went through.
C14_PrepareKeeps ==
    [][out'.op = "prepare" =>
          /\ inventory_state' = inventory_state
          /\ now' = now
          /\ lookup_count' = lookup_count
          /\ out'.image = "cleared"
          /\ out'.total = <<>>
          /\ out'.summary.empty
          /\ ~out'.file.present
          /\ out'.df = inventory_frame(inventory_state)
          /\ (out.op = "process" /\ out.outcome = "ok") => out'.df = out.df]_vars

\* Prepared over an inventory of two items.
C14_Witness ==
    /\ out.op = "prepare"
    /\ Len(inventory_state) = 2
    /\ Len(out.df) = 2
    /\ out.df[1].Item = inventory_state[1].item

\* C15: the lookup never raises past the adapter: whatever the item name and
\* the upstream outcome, it returns a result; with the credential missing or
\* the request failing the result has status "error", a details text and no
\* url; and every item of the batch is processed and the batch appended.
C15_LookupNeverRaises ==
    ImageCall =>
        /\ ~call.loop.raised
        /\ \A j \in DOMAIN call.loop.infos :
              (~PERPLEXITY_API_KEY \/ Upstream(call.ups[j]).kind = "request_error") =>
                  /\ call.loop.infos[j].status = "error"
                  /\ call.loop.infos[j].details # <<>>
                  /\ call.loop.infos[j].url = None
        /\ Len(call.loop.infos) = Len(call.extraction.items)
        /\ call.extraction.items # <<>> => call.appended

\* The extraction call of the last process_receipt failed: the credential is
\* there, the request or the API raised.
Unreachable ==
    GOOGLE_API_KEY /\ call.extraction.total = <<"Error:", " AI API call failed">>

\* C16: when the extraction adapter is unconfigured or unreachable,
\* process_receipt falls back to the mock extraction: the mock batch is
\* aggregated and appended, and no extraction error is returned.
C16_MockFallback ==
    (ImageCall /\ (~GOOGLE_API_KEY \/ Unreachable)) =>
        /\ Len(call.extraction.items) = 5
        /\ call.extraction.items[1].item = <<"Organic Milk">>
        /\ call.appended
        /\ out.outcome # "extraction_error"

\* A price text without its one optional leading "$".
Undollared(s) == IF s # <<>> /\ s[1] = "$" THEN Tail(s) ELSE s

\* \d+ with optional thousands commas: digits only, or groups of three
\* digits set off by commas after one to three leading digits.
WholePart(ip) ==
    /\ ip # <<>>
    /\ \/ \A i \in DOMAIN ip : ip[i] \in Digits
       \/ /\ \E i \in DOMAIN ip : ip[i] = ","
          /\ ip[1] \in Digits
          /\ \A i \in DOMAIN ip :
                IF (Len(ip) - i + 1) % 4 = 0 THEN ip[i] = "," ELSE ip[i] \in Digits

\* \.\d+, or nothing: fp is the text after the first ".", when there is one
FractionPart(body, fp) ==
    IF dot_index(body) > Len(body) THEN TRUE
    ELSE fp # <<>> /\ \A i \in DOMAIN fp : fp[i] \in Digits

\* The text matches \$?\d+(\.\d+)?, thousands commas allowed.
PlainPrice(s) ==
    /\ s # None
    /\ WholePart(SubSeq(Undollared(s), 1, dot_index(Undollared(s)) - 1))
    /\ FractionPart(Undollared(s),
                    SubSeq(Undollared(s), dot_index(Undollared(s)) + 1,
                           Len(Undollared(s))))

\* The number a plain price text denotes, in hundredths.
PlainValue(s) ==
    100 * DigitsVal(Remove(SubSeq(Undollared(s), 1, dot_index(Undollared(s)) - 1),
                           ","))
    + hundredths(SubSeq(Undollared(s), dot_index(Undollared(s)) + 1,
                        Len(Undollared(s))))

\* C17: parse_price returns the exact value of every text matching
\* \$?\d+(\.\d+)? (thousands commas allowed) and None for every other input:
\* texts with surrounding whitespace, a sign, repeated "$", and non-strings.
C17_ParsePriceExactOrNone ==
    parse_call.done =>
        parse_call.result =
            IF PlainPrice(parse_call.price_str)
            THEN F(PlainValue(parse_call.price_str))
            ELSE NoneF

\* The label goes by the strict sign of the difference d.
StrictSign(status, d) ==
    /\ d > 0 => status = "cheaper online"
    /\ d < 0 => status = "cheaper in store"
    /\ d = 0 <=> status = "same price"

\* C18: in every summary, the label of the latest-receipt block goes by the
\* strict sign of current paid total minus current online total, and the
\* label of the all-receipts block by the strict sign of cumulative paid
\* total minus cumulative online total; "same price" only at exactly zero.
C18_StrictSignLabel ==
    (out.op = "process" /\ call.summarised) =>
        /\ StrictSign(out.summary.latest.status,
                      call.loop.current_receipt_total
                          - call.loop.current_online_total)
        /\ StrictSign(out.summary.cumulative.status,
                      call.all.all_receipts_total - call.all.all_online_total)

\* A tie in the latest receipt under a cumulative difference below zero.
C18_Witness ==
    /\ out.op = "process" /\ call.summarised
    /\ out.summary.latest.compared
    /\ out.summary.latest.status = "same price"
    /\ out.summary.has_cumulative
    /\ out.summary.cumulative.status = "cheaper in store"

\* C19: the all-receipts block of a summary is rendered exactly when the
\* inventory passed to the call holds an item whose receipt_timestamp
\* differs from the one the call generated.
C19_CumulativeShownIffPrior ==
    (out.op = "process" /\ call.summarised) =>
        (out.summary.has_cumulative <=>
            \E i \in DOMAIN call.arg_state :
                Get(call.arg_state[i], "receipt_timestamp", <<>>)
                    # call.receipt_timestamp)

\* The block is shown over prior items that add nothing to the paid total.
C19_Witness ==
    /\ out.op = "process" /\ call.summarised
    /\ call.arg_state # <<>>
    /\ call.all.all_receipts_total = call.loop.current_receipt_total
    /\ out.summary.has_cumulative

\* The export holds one row per inventory item, in inventory order, under
\* the headers Item, Price Paid, Predicted Expiry Date.
ExportOfInventory ==
    /\ Len(out.file.rows) = Len(inventory_state)
    /\ \A i \in DOMAIN inventory_state :
          /\ DOMAIN out.file.rows[i] = {"Item", "PricePaid", "PredictedExpiryDate"}
          /\ out.file.rows[i].Item = inventory_state[i].item
          /\ out.file.rows[i].PricePaid = inventory_state[i].price_paid
          /\ out.file.rows[i].PredictedExpiryDate
                 = inventory_state[i].predicted_expiry

FencedJSON(content) ==
    fenced_match(content).found /\ json_loads(fenced_match(content).group).ok
BracedJSON(content) ==
    bare_match(content).found /\ json_loads(bare_match(content).group).ok

\* the status a parsed object stands for
StatusOf(data) ==
    IF Get(data, "price", JStr(S_NA)) = JStr(S_NotFound) THEN "not_found"
    ELSE IF Get(data, "price", JStr(S_NA)) = JStr(S_PriceVaries) THEN "varies"
    ELSE "found"

\* the status the ordered chain gives: the first strategy that succeeds wins
ChainStatus(content) ==
    IF FencedJSON(content)
    THEN StatusOf(json_loads(fenced_match(content).group).data)
    ELSE IF BracedJSON(content)
    THEN StatusOf(json_loads(bare_match(content).group).data)
    ELSE IF prose_match(content) THEN "found"
    ELSE IF has_not_found(content) THEN "not_found"
    ELSE IF has_price_varies(content) THEN "varies"
    ELSE "error"

\* C21: the lookup parses the response by an ordered chain, fenced JSON, then
\* a brace-delimited substring, then the "$X.XX at Retailer" pattern, then the
\* substrings "Not Found" and "Price Varies"; the first strategy that succeeds
\* decides the status, and the status is error only when all four fail.
C21_ParseChain ==
    (lookup_call.done /\ lookup_call.up.kind = "content") =>
        lookup_call.result.status = ChainStatus(Strip(lookup_call.up.content))

\* The lookup fields an inventory item stores.
StoredOnline(item) == Get(item, "online_price", NoneF)
StoredAssumed(item) == Get(item, "is_assumed_price", FALSE)
StoredPaid(item) == parse_price(Get(item, "price_paid", S_NA))

\* The online total and the counts derived from stored fields alone.
RECURSIVE StoredOnlineTotal(_)
StoredOnlineTotal(items) ==
    IF items = <<>> THEN 0
    ELSE StoredOnlineTotal(Tail(items))
            + (IF StoredOnline(items[1]).some THEN StoredOnline(items[1]).v ELSE 0)

StoredFoundCount(items) ==
    Cardinality({i \in DOMAIN items :
                    StoredOnline(items[i]).some /\ ~StoredAssumed(items[i])})
StoredAssumedCount(items) ==
    Cardinality({i \in DOMAIN items : StoredAssumed(items[i])})

\* C22: every item of the inventory stores consistent lookup fields: an
\* assumed item stores its parsed paid price as its online price, and an item
\* without an online price is not assumed and has no parsable paid price; so
\* the cumulative online total and counts a process_receipt call reports equal
\* those derived from the stored fields of the inventory it returns.
C22_StoredFieldsConsistent ==
    /\ \A i \in DOMAIN inventory_state :
          /\ "online_price" \in DOMAIN inventory_state[i]
          /\ "is_assumed_price" \in DOMAIN inventory_state[i]
          /\ StoredAssumed(inventory_state[i]) =>
                /\ StoredPaid(inventory_state[i]).some
                /\ StoredOnline(inventory_state[i]) = StoredPaid(inventory_state[i])
          /\ ~StoredOnline(inventory_state[i]).some =>
                /\ ~StoredAssumed(inventory_state[i])
                /\ ~StoredPaid(inventory_state[i]).some
    /\ (out.op = "process" /\ out.outcome = "ok") =>
          /\ call.all.all_online_total = StoredOnlineTotal(inventory_state)
          /\ call.all.all_found_count = StoredFoundCount(inventory_state)
          /\ call.all.all_assumed_count = StoredAssumedCount(inventory_state)

\* A call over a prior assumed item whose batch holds an item with neither an
\* online price nor a parsable paid price.
C22_Witness ==
    /\ out.op = "process" /\ out.outcome = "ok"
    /\ Len(call.arg_state) = 1 /\ Len(inventory_state) = 2
    /\ StoredAssumed(inventory_state[1])
    /\ ~StoredOnline(inventory_state[2]).some
    /\ call.all.all_assumed_count = 1
    /\ call.all.all_online_total = StoredPaid(inventory_state[1]).v

====
